---- MODULE Spec2Model ----
(***************************************************************************)
(* Model of the GCS object-storage driver (package gcs): the Manager's     *)
(* client cache, the bucket operations Download / Upload / List / Remove / *)
(* Attrs, the version-token conversion and the error normalisation; of the *)
(* options of package objects; and of the middleware chain of the          *)
(* TypeScript runtime's handler registration.                              *)
(*                                                                         *)
(* The driver is modelled from its source; the Google Cloud Storage SDK    *)
(* and service it calls (storage.Client, ObjectHandle, Writer,             *)
(* ObjectIterator) is the environment, modelled at the call sites.         *)
(*                                                                         *)
(* Strings whose characters matter (version tokens, object names) are      *)
(* sequences of one-character strings.                                     *)
(***************************************************************************)
EXTENDS Integers, Sequences, FiniteSets, TLC

VARIABLES
    \* ---- error normalisation (mapErr applied to a backend error)
    errIn,      \* the backend error handed to mapErr
    errOut,     \* what mapErr returned for it (tag "pending" before the call)
    \* ---- Manager
    clients,    \* mgr.clients: provider identity -> client (0 = no entry)
    built,      \* provider identity -> number of storage.NewClient successes
    callers,    \* goroutine -> its position inside NewBucket
    \* ---- bucket.List
    listing,    \* the objects of the listed bucket, in the backend's order
    cursors,    \* List call -> the closure's captured state and its history
    \* ---- bucket.Upload / Download / Remove / Attrs
    store,      \* object -> its generations and which one is live
    nextGen,    \* the generation number the backend assigns next
    versioned,  \* whether the bucket keeps noncurrent generations
    uploads,    \* upload id -> the uploader and its writer
    last,       \* the most recent Download / Remove / Attrs call and its result
    \* ---- package objects: options
    optRun,     \* one operation's options struct and the options applied to it
    \* ---- handler registration: middlewares
    mwCalc,     \* calculateMiddlewareChain: its arguments and its loop's progress
    mwRun       \* one request: the chain's activations and the request's data

vars == <<errIn, errOut, clients, built, callers, listing, cursors,
          store, nextGen, versioned, uploads, last, optRun, mwCalc, mwRun>>

errVars   == <<errIn, errOut>>
mgrVars   == <<clients, built, callers>>
listVars  == <<listing, cursors>>
storeVars == <<store, nextGen, versioned, uploads, last>>
optVars   == <<optRun>>
mwVars    == <<mwCalc, mwRun>>

\* what an action of one component leaves alone
StoreOnly == UNCHANGED <<errVars, mgrVars, listVars, optVars, mwVars>>
ListOnly  == UNCHANGED <<errVars, mgrVars, storeVars, optVars, mwVars>>
MgrOnly   == UNCHANGED <<errVars, listVars, storeVars, optVars, mwVars>>
OptOnly   == UNCHANGED <<errVars, mgrVars, listVars, storeVars, mwVars>>
CalcOnly  == UNCHANGED <<errVars, mgrVars, listVars, storeVars, optVars, mwRun>>
RunOnly   == UNCHANGED <<errVars, mgrVars, listVars, storeVars, optVars, mwCalc>>

(***************************************************************************)
(* Errors.  An error value is a record: tag "nil" is the nil error, tag    *)
(* "native" a backend error described by what errors.Is / errors.As /      *)
(* status.FromError find in its chain, and the two remaining tags are the  *)
(* sentinels types.ErrObjectNotExist and types.ErrPreconditionFailed.      *)
(***************************************************************************)
NoCode == "none"

MkErr(tag, notExist, http, grpc, msg) ==
    [tag |-> tag, notExist |-> notExist, http |-> http, grpc |-> grpc, msg |-> msg]

NilErr == MkErr("nil", FALSE, NoCode, NoCode, "")

ErrObjectNotExist == MkErr("ErrObjectNotExist", FALSE, NoCode, NoCode, "")

ErrPreconditionFailed == MkErr("ErrPreconditionFailed", FALSE, NoCode, NoCode, "")

\* storage.ErrObjectNotExist as the SDK returns it
StorageErrObjectNotExist == MkErr("native", TRUE, NoCode, NoCode, "object doesn't exist")

\* *googleapi.Error with Code 412, returned for a failed DoesNotExist condition
HttpPreconditionFailed == MkErr("native", FALSE, "412", NoCode, "conditionNotMet")

\* gRPC status FailedPrecondition, the same failure over the gRPC transport
GrpcFailedPrecondition == MkErr("native", FALSE, NoCode, "FailedPrecondition", "conditionNotMet")

\* context.Canceled, returned by a call whose context was cancelled
ContextCanceled == MkErr("native", FALSE, NoCode, NoCode, "context canceled")

\* a transport failure of the backend iterator
BackendUnavailable == MkErr("native", FALSE, NoCode, "Unavailable", "unavailable")

HttpCodes == {NoCode, "403", "404", "412", "500"}

GrpcCodes == {NoCode, "AlreadyExists", "FailedPrecondition", "NotFound", "Unknown", "Unavailable"}

ErrMsgs == {"e1", "e2"}

\* every non-nil error shape a backend call may return
NativeErrs ==
    {MkErr("native", ne, h, g, m) : ne \in BOOLEAN, h \in HttpCodes, g \in GrpcCodes, m \in ErrMsgs}

\* status.FromError(err) for a non-nil err: the status found in the chain and ok,
\* or a status of code Unknown and not ok
FromError(err) ==
    IF err.grpc = NoCode
    THEN [ok |-> FALSE, code |-> "Unknown"]
    ELSE [ok |-> TRUE, code |-> err.grpc]

\* mapErr that drops what it does not recognise
mapErrSwallow(err) ==
    CASE err.tag = "nil" -> NilErr
      [] err.notExist -> ErrObjectNotExist
      [] err.http = "412" -> ErrPreconditionFailed
      [] OTHER -> NilErr

\* mapErr that knows the failed precondition only as an HTTP 412
mapErrHttpOnly(err) ==
    CASE err.tag = "nil" -> NilErr
      [] err.notExist -> ErrObjectNotExist
      [] err.http = "412" -> ErrPreconditionFailed
      [] OTHER -> err

mapErr(err) ==
    CASE err.tag = "nil" -> NilErr
      [] err.notExist -> ErrObjectNotExist
      [] OTHER ->
            IF err.http = "412"
            THEN ErrPreconditionFailed
            ELSE LET s == FromError(err)
                 IN  IF (s.ok /\ s.code = "AlreadyExists") \/ s.code = "FailedPrecondition"
                     THEN ErrPreconditionFailed
                     ELSE err

(***************************************************************************)
(* Version tokens.  The backend's generation is an int64; the driver       *)
(* shows it as strconv.FormatInt(gen, 10) and reads it back with           *)
(* strconv.ParseInt(version, 10, 64).                                      *)
(***************************************************************************)
DigitChars == <<"0", "1", "2", "3", "4", "5", "6", "7", "8", "9",
                "a", "b", "c", "d", "e", "f">>

DigitValues == [i \in 1..16 |-> i - 1]

IsDigit(c, base) == \E i \in 1..base : DigitChars[i] = c

DigitVal(c) == DigitValues[CHOOSE i \in 1..16 : DigitChars[i] = c]

RECURSIVE FormatUint(_, _)
FormatUint(n, base) ==
    IF n < base
    THEN <<DigitChars[n + 1]>>
    ELSE Append(FormatUint(n \div base, base), DigitChars[(n % base) + 1])

\* strconv.FormatInt(n, base)
FormatInt(n, base) ==
    IF n < 0 THEN <<"-">> \o FormatUint(-n, base) ELSE FormatUint(n, base)

\* 1 << 63, the magnitude at which ParseInt(s, 10, 64) reports a range error
Int64Cutoff == <<"9", "2", "2", "3", "3", "7", "2", "0", "3", "6",
                 "8", "5", "4", "7", "7", "5", "8", "0", "8">>

RECURSIVE StripZeros(_)
StripZeros(s) ==
    IF Len(s) > 1 /\ Head(s) = "0" THEN StripZeros(Tail(s)) ELSE s

\* a < b for two decimal digit strings without leading zeros
MagLess(a, b) ==
    \/ Len(a) < Len(b)
    \/ /\ Len(a) = Len(b)
       /\ \E i \in 1..Len(a) :
            /\ DigitVal(a[i]) < DigitVal(b[i])
            /\ \A j \in 1..(i - 1) : a[j] = b[j]

RECURSIVE MagValue(_, _)
MagValue(s, base) ==
    IF s = <<>> THEN 0
    ELSE MagValue(SubSeq(s, 1, Len(s) - 1), base) * base + DigitVal(s[Len(s)])

\* strconv.ParseInt(s, base, 64): err is "nil", "syntax" or "range".  The range
\* check compares digit strings, so no 64-bit value is ever computed; the value
\* of an in-range string is computed by Horner's rule (the model's in-range
\* inputs have at most nine digits).
ParseInt(s, base) ==
    IF s = <<>> THEN [err |-> "syntax", val |-> 0]
    ELSE LET neg  == Head(s) = "-"
             body == IF Head(s) \in {"+", "-"} THEN Tail(s) ELSE s
         IN  IF body = <<>> \/ \E i \in 1..Len(body) : ~IsDigit(body[i], base)
             THEN [err |-> "syntax", val |-> 0]
             ELSE LET mag == StripZeros(body)
                  IN  IF \/ ~neg /\ ~MagLess(mag, Int64Cutoff)
                         \/ neg /\ MagLess(Int64Cutoff, mag)
                      THEN [err |-> "range", val |-> 0]
                      ELSE [err |-> "nil",
                            val |-> IF neg THEN -MagValue(mag, base) ELSE MagValue(mag, base)]

(***************************************************************************)
(* The backend bucket: storage.ObjectHandle, the generations of an object, *)
(* and what NewReader / Attrs / Delete / Writer.Close do with a handle.    *)
(***************************************************************************)
Objects == {"o1"}

ContentTypes == {"text/plain"}

Payloads == {<<"x">>}

Reasons == {"aborted by caller"}

\* uploads started in one behaviour
MaxUploads == 2

\* bytes written to one upload
MaxWrites == 2

\* the first generation number the backend assigns
GenStart == 9

\* the generation of a handle that is not pinned: the live version
NoGen == -1

\* b.handle.Object(name)
Object(name) == [object |-> name, gen |-> NoGen, doesNotExist |-> FALSE]

\* obj.Generation(gen)
Generation(obj, gen) == [obj EXCEPT !.gen = gen]

\* obj.If(storage.Conditions{DoesNotExist: ...})
If(obj, conds) == [obj EXCEPT !.doesNotExist = conds.DoesNotExist]

\* an object nothing was uploaded to; removedAs is history: the generations
\* (NoGen for the live one) that handles were pinned to when their Delete
\* succeeded, since the last upload of the object was committed
EmptyObject == [live |-> NoGen, gens |-> {}, removedAs |-> {}]

\* the generations a handle targets: the pinned one, or the live one
Resolve(st, obj) ==
    LET want == IF obj.gen >= 0 THEN obj.gen ELSE st[obj.object].live
    IN  {g \in st[obj.object].gens : g.Generation = want /\ want >= 0}

\* a nil *storage.ObjectAttrs
NilObjectAttrs ==
    [isNil |-> TRUE, Name |-> "", Generation |-> 0, ContentType |-> "", Size |-> 0, Etag |-> 0]

\* the storage.ObjectAttrs of a stored generation
ObjectAttrsOf(g) ==
    [isNil |-> FALSE, Name |-> g.Name, Generation |-> g.Generation,
     ContentType |-> g.ContentType, Size |-> Len(g.data), Etag |-> g.Generation]

\* a nil *types.ObjectAttrs
NilAttrs ==
    [isNil |-> TRUE, Object |-> "", Version |-> <<>>, ContentType |-> "", Size |-> 0, ETag |-> 0]

\* mapAttrs that prints the generation in base 16
mapAttrsHex(attrs) ==
    IF attrs.isNil THEN NilAttrs
    ELSE [isNil |-> FALSE, Object |-> attrs.Name, Version |-> FormatInt(attrs.Generation, 16),
          ContentType |-> attrs.ContentType, Size |-> attrs.Size, ETag |-> attrs.Etag]

mapAttrs(attrs) ==
    IF attrs.isNil THEN NilAttrs
    ELSE [isNil |-> FALSE, Object |-> attrs.Name, Version |-> FormatInt(attrs.Generation, 10),
          ContentType |-> attrs.ContentType, Size |-> attrs.Size, ETag |-> attrs.Etag]

\* the generation a committed write creates
NewGeneration(w, u) ==
    [Generation |-> nextGen, Name |-> w.obj.object, data |-> w.buf,
     ContentType |-> w.ContentType, from |-> u]

\* the bucket after the write is committed: the new generation is live; the one
\* it replaces stays as a noncurrent generation only in a versioned bucket
Commit(st, w, u) ==
    LET o    == w.obj.object
        kept == IF versioned THEN st[o].gens
                ELSE {g \in st[o].gens : g.Generation # st[o].live}
    IN  [st EXCEPT ![o] = [live |-> nextGen, gens |-> kept \cup {NewGeneration(w, u)},
                           removedAs |-> {}]]

\* what Writer.Close returns: the context's error when the writer's context was
\* cancelled, the failed condition (over HTTP or gRPC) when DoesNotExist was
\* asked and the object has a live generation, and otherwise nil with the
\* write committed.  The condition is evaluated by the backend in the step
\* that commits.
CloseOutcomes(w) ==
    IF w.cancelled THEN {ContextCanceled}
    ELSE IF w.obj.doesNotExist /\ store[w.obj.object].live # NoGen
         THEN {HttpPreconditionFailed, GrpcFailedPrecondition}
         ELSE {NilErr}

\* a Delete of the live version that leaves it live
DeletedStaysLive(st, obj, hit) ==
    LET o == obj.object
    IN  IF obj.gen >= 0
        THEN [st EXCEPT ![o].live = IF st[o].live = obj.gen THEN NoGen ELSE st[o].live,
                        ![o].gens = st[o].gens \ hit,
                        ![o].removedAs = @ \cup {obj.gen}]
        ELSE [st EXCEPT ![o].removedAs = @ \cup {NoGen}]

\* the bucket after obj.Delete succeeded on the generations `hit`
Deleted(st, obj, hit) ==
    LET o == obj.object
    IN  IF obj.gen >= 0
        THEN [st EXCEPT ![o].live = IF st[o].live = obj.gen THEN NoGen ELSE st[o].live,
                        ![o].gens = st[o].gens \ hit,
                        ![o].removedAs = @ \cup {obj.gen}]
        ELSE [st EXCEPT ![o].live = NoGen,
                        ![o].gens = IF versioned THEN st[o].gens ELSE st[o].gens \ hit,
                        ![o].removedAs = @ \cup {NoGen}]

(***************************************************************************)
(* bucket.Upload and the uploader.  An upload record holds the uploader    *)
(* (its writer w: obj, ContentType, buf, and the state of the context the  *)
(* writer was opened with: cancelled, cause), what Complete returned (err, *)
(* attrs), and history used by the properties: pre (NotExists as the       *)
(* caller asked it), aborted (Abort was called before Complete), gen (the  *)
(* generation the upload created), peers (the uploads of the same object   *)
(* that were open when this one started), disturbed (a Remove of the       *)
(* object succeeded while this upload was open), ctxCancelled (the state   *)
(* of data.Ctx, the context the caller passed) and abortedWith (the reason *)
(* Abort was called with).                                                 *)
(***************************************************************************)
UploadIds == 1..MaxUploads

\* no Download / Remove / Attrs call is the most recent call
NoCall ==
    [op |-> "none", Object |-> "", Version |-> <<>>, gen |-> NoGen, err |-> NilErr,
     data |-> <<>>, attrs |-> NilAttrs, target |-> NoGen, liveAt |-> NoGen]

FreeUpload ==
    [st |-> "free", obj |-> Object(""), ContentType |-> "", buf |-> <<>>,
     cancelled |-> FALSE, cause |-> "", err |-> NilErr, attrs |-> NilAttrs,
     pre |-> FALSE, aborted |-> FALSE, gen |-> NoGen, peers |-> {}, disturbed |-> FALSE,
     ctxCancelled |-> FALSE, abortedWith |-> ""]

UploadData ==
    [Object : Objects, Pre : [NotExists : BOOLEAN], Attrs : [ContentType : ContentTypes]]

OpenOn(o) == {v \in UploadIds : uploads[v].st = "open" /\ uploads[v].obj.object = o}

\* Upload that never conditions the write
UploadNoCondition(u, data) ==
    /\ uploads[u].st = "free"
    /\ \A v \in 1..(u - 1) : uploads[v].st # "free"
    /\ uploads' = [uploads EXCEPT ![u] =
            [FreeUpload EXCEPT !.st = "open", !.obj = Object(data.Object),
                               !.ContentType = data.Attrs.ContentType,
                               !.pre = data.Pre.NotExists,
                               !.peers = OpenOn(data.Object)]]
    /\ last' = NoCall
    /\ UNCHANGED <<store, nextGen, versioned>>
    /\ StoreOnly

Upload(u, data) ==
    /\ uploads[u].st = "free"
    /\ \A v \in 1..(u - 1) : uploads[v].st # "free"
    /\ LET obj0 == Object(data.Object)
           obj  == IF data.Pre.NotExists THEN If(obj0, [DoesNotExist |-> TRUE]) ELSE obj0
       IN  uploads' = [uploads EXCEPT ![u] =
                [FreeUpload EXCEPT !.st = "open", !.obj = obj,
                                   !.ContentType = data.Attrs.ContentType,
                                   !.pre = data.Pre.NotExists,
                                   !.peers = OpenOn(data.Object)]]
    /\ last' = NoCall
    /\ UNCHANGED <<store, nextGen, versioned>>
    /\ StoreOnly

\* uploader.Write on a writer whose context is live: the bytes join the writer's
\* buffer.  (On a cancelled context Write returns the error and adds nothing.)
Write(u, p) ==
    /\ uploads[u].st = "open"
    /\ ~uploads[u].cancelled
    /\ Len(uploads[u].buf) < MaxWrites
    /\ uploads' = [uploads EXCEPT ![u].buf = @ \o p]
    /\ last' = NoCall
    /\ UNCHANGED <<store, nextGen, versioned>>
    /\ StoreOnly

Complete(u) ==
    /\ uploads[u].st = "open"
    /\ \E err \in CloseOutcomes(uploads[u]) :
         IF err # NilErr
         THEN /\ uploads' = [uploads EXCEPT ![u].st = "closed", ![u].err = mapErr(err)]
              /\ UNCHANGED <<store, nextGen>>
         ELSE /\ store' = Commit(store, uploads[u], u)
              /\ nextGen' = nextGen + 1
              /\ uploads' = [uploads EXCEPT
                    ![u].st = "closed",
                    ![u].gen = nextGen,
                    ![u].attrs = mapAttrs(ObjectAttrsOf(NewGeneration(uploads[u], u)))]
    /\ last' = NoCall
    /\ UNCHANGED versioned
    /\ StoreOnly

\* Abort that forgets to cancel
AbortNoCancel(u, reason) ==
    /\ uploads[u].st = "open"
    /\ ~uploads[u].aborted
    /\ uploads' = [uploads EXCEPT ![u].aborted = TRUE]
    /\ last' = NoCall
    /\ UNCHANGED <<store, nextGen, versioned>>
    /\ StoreOnly

\* Abort whose cancel function is that of the caller's context
AbortCancelsCaller(u, reason) ==
    /\ uploads[u].st = "open"
    /\ ~uploads[u].aborted
    /\ uploads' = [uploads EXCEPT
            ![u].aborted = TRUE,
            ![u].abortedWith = reason,
            ![u].ctxCancelled = TRUE,
            ![u].cancelled = TRUE,
            ![u].cause = IF uploads[u].cancelled THEN @ ELSE reason]
    /\ last' = NoCall
    /\ UNCHANGED <<store, nextGen, versioned>>
    /\ StoreOnly

\* uploader.Abort before Complete: u.cancel(err).  The first cancellation sets
\* the cause; cancelling again changes nothing.
Abort(u, reason) ==
    /\ uploads[u].st = "open"
    /\ ~uploads[u].aborted
    /\ uploads' = [uploads EXCEPT
            ![u].aborted = TRUE,
            ![u].abortedWith = reason,
            ![u].cancelled = TRUE,
            ![u].cause = IF uploads[u].cancelled THEN @ ELSE reason]
    /\ last' = NoCall
    /\ UNCHANGED <<store, nextGen, versioned>>
    /\ StoreOnly

\* the cause of a context cancelled without one
Canceled == "context canceled"

\* the caller cancels data.Ctx while the upload is open: the context derived
\* from it at line 62 is cancelled with it, unless it already was
CancelCaller(u) ==
    /\ uploads[u].st = "open"
    /\ ~uploads[u].ctxCancelled
    /\ uploads' = [uploads EXCEPT
            ![u].ctxCancelled = TRUE,
            ![u].cancelled = TRUE,
            ![u].cause = IF uploads[u].cancelled THEN @ ELSE Canceled]
    /\ last' = NoCall
    /\ UNCHANGED <<store, nextGen, versioned>>
    /\ StoreOnly

(***************************************************************************)
(* bucket.Download, bucket.Remove, bucket.Attrs.  `last` records the call  *)
(* (op, Object, Version), the handle's generation (gen), what the call     *)
(* returned (err, data, attrs) and, as history, the generation it acted on *)
(* (target) and the object's live generation at the call (liveAt).  Any    *)
(* other call on the bucket resets it to NoCall.                           *)
(***************************************************************************)
\* twenty nines: a decimal number above the int64 range
OutOfRange == [i \in 1..20 |-> "9"]

\* version strings a caller passes that no Attrs call returned: empty, not a
\* number, signed, and out of the int64 range
OddVersions ==
    {<<>>, <<"x">>, <<"+", "9">>, <<"-", "1">>, OutOfRange}

\* the versions the driver has returned so far
ReturnedVersions ==
    {uploads[u].attrs.Version : u \in {v \in UploadIds : ~uploads[v].attrs.isNil}}
        \cup (IF last.attrs.isNil THEN {} ELSE {last.attrs.Version})

VersionData == [Object : Objects, Version : OddVersions \cup ReturnedVersions]

Called(op, data, obj, hit, err) ==
    [NoCall EXCEPT !.op = op, !.Object = data.Object, !.Version = data.Version,
                   !.gen = obj.gen, !.err = mapErr(err),
                   !.target = IF hit = {} THEN NoGen ELSE (CHOOSE g \in hit : TRUE).Generation,
                   !.liveAt = store[data.Object].live]

\* lines 51-56: the handle Download reads
DownloadObj(data) ==
    LET obj == Object(data.Object)
        p   == ParseInt(data.Version, 10)
    IN  IF data.Version # <<>> /\ p.err = "nil" THEN Generation(obj, p.val) ELSE obj

Download(data) ==
    LET obj == DownloadObj(data)
        hit == Resolve(store, obj)
        err == IF hit = {} THEN StorageErrObjectNotExist ELSE NilErr
    IN  /\ last' = [Called("Download", data, obj, hit, err) EXCEPT
                        !.data = IF hit = {} THEN <<>> ELSE (CHOOSE g \in hit : TRUE).data]
        /\ UNCHANGED <<store, nextGen, versioned, uploads>>
        /\ StoreOnly

\* the handle Remove deletes, were the version ignored
RemoveObjLive(data) == Object(data.Object)

\* lines 156-162: the handle Remove deletes
RemoveObj(data) ==
    LET obj == Object(data.Object)
        p   == ParseInt(data.Version, 10)
    IN  IF data.Version # <<>> /\ p.err = "nil" THEN Generation(obj, p.val) ELSE obj

Remove(data) ==
    LET obj == RemoveObj(data)
        hit == Resolve(store, obj)
        err == IF hit = {} THEN StorageErrObjectNotExist ELSE NilErr
    IN  /\ last' = Called("Remove", data, obj, hit, err)
        /\ store' = IF hit = {} THEN store ELSE Deleted(store, obj, hit)
        /\ uploads' = [u \in UploadIds |->
                        IF hit # {} /\ u \in OpenOn(data.Object)
                        THEN [uploads[u] EXCEPT !.disturbed = TRUE]
                        ELSE uploads[u]]
        /\ UNCHANGED <<nextGen, versioned>>
        /\ StoreOnly

\* lines 169-175: the handle Attrs reads
AttrsObj(data) ==
    LET obj == Object(data.Object)
        p   == ParseInt(data.Version, 10)
    IN  IF data.Version # <<>> /\ p.err = "nil" THEN Generation(obj, p.val) ELSE obj

Attrs(data) ==
    LET obj  == AttrsObj(data)
        hit  == Resolve(store, obj)
        err  == IF hit = {} THEN StorageErrObjectNotExist ELSE NilErr
        resp == IF hit = {} THEN NilObjectAttrs ELSE ObjectAttrsOf(CHOOSE g \in hit : TRUE)
    IN  /\ last' = [Called("Attrs", data, obj, hit, err) EXCEPT !.attrs = mapAttrs(resp)]
        /\ UNCHANGED <<store, nextGen, versioned, uploads>>
        /\ StoreOnly

(***************************************************************************)
(* bucket.List.  The backend iterator (storage.ObjectIterator) serves the  *)
(* objects whose name has the query's prefix, in name order, fetching them *)
(* a page at a time; a failed fetch is returned by Next and by every later *)
(* Next of that iterator.  A cursor holds what the closure captured (iter,  *)
(* n), where the closure is (st), and as history what it yielded, how      *)
(* often it was ranged over, whether a yield ever returned false (stopped) *)
(* and whether the consumer is waiting for an element (pulling).           *)
(***************************************************************************)
\* objects a page holds
PageSize == 2

\* the largest limit a List call passes
MaxLimit == 3

\* times a consumer ranges over one returned sequence
MaxRanges == 2

\* elements a consumer takes from one sequence before it stops pulling
MaxYield == 5

\* the List calls made on the bucket
ListCalls == {1, 2}

\* the first of them
FirstCall == {1}

Names == {<<"a", "1">>, <<"a", "2">>, <<"a", "3">>, <<"b", "1">>}

Prefixes == {<<>>, <<"a">>, <<"b">>}

\* every object the listed bucket may hold, in name order
AllListed ==
    << [isNil |-> FALSE, Name |-> <<"a", "1">>, Generation |-> 1, ContentType |-> "", Size |-> 1, Etag |-> 1],
       [isNil |-> FALSE, Name |-> <<"a", "2">>, Generation |-> 2, ContentType |-> "", Size |-> 2, Etag |-> 2],
       [isNil |-> FALSE, Name |-> <<"a", "3">>, Generation |-> 3, ContentType |-> "", Size |-> 3, Etag |-> 3],
       [isNil |-> FALSE, Name |-> <<"b", "1">>, Generation |-> 4, ContentType |-> "", Size |-> 4, Etag |-> 4] >>

Listings == {SelectSeq(AllListed, LAMBDA a : a.Name \in S) : S \in SUBSET Names}

HasPrefix(name, prefix) ==
    Len(prefix) <= Len(name) /\ SubSeq(name, 1, Len(prefix)) = prefix

\* iterator.Done
IterDone == MkErr("Done", FALSE, NoCode, NoCode, "no more items in iterator")

\* a nil *types.ListEntry
NilEntry == [isNil |-> TRUE, Object |-> <<>>, Size |-> 0, ETag |-> 0]

mapListEntry(attrs) ==
    [isNil |-> FALSE, Object |-> attrs.Name, Size |-> attrs.Size, ETag |-> attrs.Etag]

\* a *int64 limit
NilLimit == [isNil |-> TRUE, val |-> 0]

Limits == {NilLimit} \cup {[isNil |-> FALSE, val |-> v] : v \in 0..MaxLimit}

ListData == [Prefix : Prefixes, Limit : Limits]

\* b.handle.Objects(ctx, &storage.Query{Prefix: ...}): nothing is fetched yet
Objects_(query) ==
    [prefix |-> query.Prefix, pos |-> 0, fetched |-> 0, fetches |-> 0, err |-> NilErr,
     nextCalls |-> 0]

\* what the iterator serves
Served(it) == SelectSeq(listing, LAMBDA a : HasPrefix(a.Name, it.prefix))

\* the results iter.Next() may have: the iterator afterwards, res and err
NextOutcomes(it) ==
    LET called == [it EXCEPT !.nextCalls = @ + 1]
        all    == Served(it)
        done   == [it |-> called, res |-> NilObjectAttrs, err |-> IterDone]
        item(i) == [it |-> [i EXCEPT !.pos = @ + 1], res |-> all[i.pos + 1], err |-> NilErr]
    IN  IF it.err # NilErr
        THEN {[it |-> called, res |-> NilObjectAttrs, err |-> it.err]}
        ELSE IF it.pos < it.fetched
        THEN {item(called)}
        ELSE IF it.fetches > 0 /\ it.fetched = Len(all)
        THEN {done}
        ELSE LET upto == IF it.fetched + PageSize < Len(all)
                         THEN it.fetched + PageSize ELSE Len(all)
                 got  == [called EXCEPT !.fetches = @ + 1, !.fetched = upto]
                 lost == [called EXCEPT !.fetches = @ + 1, !.err = BackendUnavailable]
             IN  {[it |-> lost, res |-> NilObjectAttrs, err |-> BackendUnavailable],
                  IF upto > it.pos THEN item(got) ELSE [done EXCEPT !.it = got]}

FreeCursor ==
    [st |-> "free", Prefix |-> <<>>, Limit |-> NilLimit, n |-> 0,
     iter |-> Objects_([Prefix |-> <<>>]), yielded |-> <<>>, stopped |-> FALSE, ranges |-> 0,
     pulling |-> FALSE]

\* List whose counter is one variable shared by every returned closure
ListSharedCount(c, data) ==
    /\ cursors[c].st = "free"
    /\ cursors' = [d \in ListCalls |->
            IF d = c
            THEN [FreeCursor EXCEPT !.st = "ready", !.Prefix = data.Prefix, !.Limit = data.Limit,
                                    !.iter = Objects_([Prefix |-> data.Prefix])]
            ELSE [cursors[d] EXCEPT !.n = 0]]
    /\ UNCHANGED listing
    /\ ListOnly

\* bucket.List: lines 126-129, the iterator and the counter the closure captures
List(c, data) ==
    /\ cursors[c].st = "free"
    /\ cursors' = [cursors EXCEPT ![c] =
            [FreeCursor EXCEPT !.st = "ready", !.Prefix = data.Prefix, !.Limit = data.Limit,
                               !.iter = Objects_([Prefix |-> data.Prefix])]]
    /\ UNCHANGED listing
    /\ ListOnly

\* the consumer ranges over the returned sequence: the closure is called
ListRange(c) ==
    /\ cursors[c].st \in {"ready", "returned"}
    /\ cursors[c].ranges < MaxRanges
    /\ cursors' = [cursors EXCEPT ![c].st = "running", ![c].ranges = @ + 1,
                                  ![c].pulling = TRUE]
    /\ UNCHANGED listing
    /\ ListOnly

\* the limit test, off by one
OverLimitLate(limit, n) == ~limit.isNil /\ n > limit.val

\* line 138
OverLimit(limit, n) == ~limit.isNil /\ n >= limit.val

\* a closure that loops on whatever yield returns
AfterYieldIgnored(cont) == "running"

\* lines 148-150: the closure returns when yield returns false
AfterYield(cont) == IF cont THEN "running" ELSE "returned"

\* one turn of the closure's loop (lines 131-151); cont is what the consumer's
\* yield returns (the turns that return without yielding are taken once, under
\* cont = TRUE)
ListStep(c, cont) ==
    /\ cursors[c].st = "running"
    /\ Len(cursors[c].yielded) < MaxYield
    /\ \E out \in NextOutcomes(cursors[c].iter) :
         IF out.err = IterDone \/ OverLimit(cursors[c].Limit, cursors[c].n)
         THEN /\ cont
              /\ cursors' = [cursors EXCEPT ![c].st = "returned", ![c].iter = out.it,
                                            ![c].pulling = FALSE]
         ELSE LET entry == IF ~out.res.isNil THEN mapListEntry(out.res) ELSE NilEntry
              IN  /\ cursors' = [cursors EXCEPT
                        ![c].iter = out.it,
                        ![c].n = @ + 1,
                        ![c].yielded = Append(@, [entry |-> entry, err |-> mapErr(out.err)]),
                        ![c].st = AfterYield(cont),
                        ![c].stopped = @ \/ ~cont,
                        ![c].pulling = cont]
                  /\ (Len(cursors[c].yielded) + 1 = MaxYield => ~cont)
    /\ UNCHANGED listing
    /\ ListOnly

\* the bucket holds some of the objects; no List call was made
InitList ==
    /\ listing \in Listings
    /\ cursors = [c \in ListCalls |-> FreeCursor]

\* an empty bucket
NoList ==
    /\ listing = <<>>
    /\ cursors = [c \in ListCalls |-> FreeCursor]

\* one List call and its consumer
NextList ==
    \/ \E c \in FirstCall, data \in ListData : List(c, data)
    \/ \E c \in FirstCall : ListRange(c)
    \/ \E c \in FirstCall, cont \in BOOLEAN : ListStep(c, cont)

\* the bucket holds every object
FullList ==
    /\ listing = AllListed
    /\ cursors = [c \in ListCalls |-> FreeCursor]

\* what the List calls made side by side ask for
PairData == [Prefix : {<<>>, <<"a">>}, Limit : {NilLimit, [isNil |-> FALSE, val |-> 2]}]

\* two List calls on one bucket, their consumers interleaved
NextListPair ==
    \/ \E c \in ListCalls, data \in PairData : List(c, data)
    \/ \E c \in ListCalls : ListRange(c)
    \/ \E c \in ListCalls, cont \in BOOLEAN : ListStep(c, cont)

(***************************************************************************)
(* The Manager.  A provider configuration is a pointer: its identity is    *)
(* the map key, its contents are ProviderCfg.  Each goroutine in NewBucket *)
(* is at "lookup" (line 182), "create" (line 194) or "store" (line 199);   *)
(* the map is read and written without a lock, so the steps of different   *)
(* goroutines interleave.  A caller's record also keeps, as history, the    *)
(* buckets NewBucket returned to it (made: provider identity and client).  *)
(***************************************************************************)
\* goroutines calling NewBucket
NumCallers == 2

\* NewBucket calls one goroutine makes
MaxCalls == 2

Callers == 1..NumCallers

Providers == {"p1", "p2", "p3"}

\* p1 and p2 are two configurations with the same contents
ProviderCfg ==
    [p \in Providers |->
        IF p = "p3" THEN [Anonymous |-> FALSE, Endpoint |-> "http://localhost:9000"]
        ELSE [Anonymous |-> TRUE, Endpoint |-> ""]]

CloudNames == {"bucket-a"}

NoClient == [id |-> 0, opts |-> {}]

NoBucket == [client |-> NoClient, cfg |-> ""]

IdleCaller ==
    [pc |-> "idle", prov |-> "p1", cfg |-> "", client |-> NoClient, bucket |-> NoBucket,
     calls |-> 0, made |-> {}]

\* a panic ends the process
Running == \A c \in Callers : callers[c].pc # "panicked"

ClientsBuilt == LET Sum[S \in SUBSET Providers] ==
                        IF S = {} THEN 0
                        ELSE LET p == CHOOSE q \in S : TRUE IN built[p] + Sum[S \ {p}]
                IN  Sum[Providers]

\* a cache keyed by what the configuration holds
KeyByContents(prov) == CHOOSE q \in Providers : ProviderCfg[q] = ProviderCfg[prov]

\* the key of mgr.clients: the *config.BucketProvider pointer itself
Key(prov) == prov

\* lines 186-192
ClientOptions(prov) ==
    (IF ProviderCfg[prov].Anonymous THEN {"WithoutAuthentication"} ELSE {})
        \cup (IF ProviderCfg[prov].Endpoint # "" THEN {"WithEndpoint"} ELSE {})

\* NewBucket is entered: line 45 calls clientForProvider
NewBucket(c, provider, runtimeCfg) ==
    /\ Running
    /\ callers[c].pc = "idle"
    /\ callers[c].calls < MaxCalls
    /\ callers' = [callers EXCEPT ![c] =
            [@ EXCEPT !.pc = "lookup", !.prov = provider, !.cfg = runtimeCfg,
                      !.client = NoClient, !.bucket = NoBucket]]
    /\ UNCHANGED <<clients, built>>
    /\ MgrOnly

\* lines 182-184, and on a hit lines 46-47
Lookup(c) ==
    /\ Running
    /\ callers[c].pc = "lookup"
    /\ IF clients[Key(callers[c].prov)] # NoClient
       THEN callers' = [callers EXCEPT ![c] =
                [@ EXCEPT !.pc = "idle", !.calls = @ + 1,
                          !.client = clients[Key(callers[c].prov)],
                          !.bucket = [client |-> clients[Key(callers[c].prov)], cfg |-> callers[c].cfg],
                          !.made = @ \cup {[prov |-> callers[c].prov,
                                            id |-> clients[Key(callers[c].prov)].id]}]]
       ELSE callers' = [callers EXCEPT ![c].pc = "create"]
    /\ UNCHANGED <<clients, built>>
    /\ MgrOnly

\* Create that carries on with the client of a failed storage.NewClient
CreateIgnoreErr(c, ok) ==
    /\ Running
    /\ callers[c].pc = "create"
    /\ callers' = [callers EXCEPT
            ![c].pc = "store",
            ![c].client = [id |-> IF ok THEN ClientsBuilt + 1 ELSE 0,
                           opts |-> ClientOptions(callers[c].prov)]]
    /\ built' = IF ok THEN [built EXCEPT ![callers[c].prov] = @ + 1] ELSE built
    /\ UNCHANGED clients
    /\ MgrOnly

\* lines 186-197: storage.NewClient returns a new client, or fails and the
\* goroutine panics
Create(c, ok) ==
    /\ Running
    /\ callers[c].pc = "create"
    /\ IF ok
       THEN /\ callers' = [callers EXCEPT
                    ![c].pc = "store",
                    ![c].client = [id |-> ClientsBuilt + 1, opts |-> ClientOptions(callers[c].prov)]]
            /\ built' = [built EXCEPT ![callers[c].prov] = @ + 1]
       ELSE /\ callers' = [callers EXCEPT ![c].pc = "panicked"]
            /\ UNCHANGED built
    /\ UNCHANGED clients
    /\ MgrOnly

\* lines 199-200, then lines 46-47
Store(c) ==
    /\ Running
    /\ callers[c].pc = "store"
    /\ clients' = [clients EXCEPT ![Key(callers[c].prov)] = callers[c].client]
    /\ callers' = [callers EXCEPT ![c] =
            [@ EXCEPT !.pc = "idle", !.calls = @ + 1,
                      !.bucket = [client |-> callers[c].client, cfg |-> callers[c].cfg],
                      !.made = @ \cup {[prov |-> callers[c].prov, id |-> callers[c].client.id]}]]
    /\ UNCHANGED built
    /\ MgrOnly

\* NewManager
InitMgr ==
    /\ clients = [p \in Providers |-> NoClient]
    /\ built = [p \in Providers |-> 0]
    /\ callers = [c \in Callers |-> IdleCaller]

NextMgr ==
    \/ \E c \in Callers, p \in Providers, cfg \in CloudNames : NewBucket(c, p, cfg)
    \/ \E c \in Callers : Lookup(c)
    \/ \E c \in Callers, ok \in BOOLEAN : Create(c, ok)
    \/ \E c \in Callers : Store(c)

\* no NewBucket call is in progress
Quiescent == \A c \in Callers : callers[c].pc = "idle"

\* a NewBucket call made after the calls before it returned
NewBucketSeq(c, provider, runtimeCfg) ==
    /\ Quiescent
    /\ NewBucket(c, provider, runtimeCfg)

\* NewBucket calls made one after another
NextMgrSeq ==
    \/ \E c \in Callers, p \in Providers, cfg \in CloudNames : NewBucketSeq(c, p, cfg)
    \/ \E c \in Callers : Lookup(c)
    \/ \E c \in Callers, ok \in BOOLEAN : Create(c, ok)
    \/ \E c \in Callers : Store(c)

\* one call of mapErr on a backend error
PendingErr == MkErr("pending", FALSE, NoCode, NoCode, "")

MapErrCall(e) ==
    /\ errIn' = e
    /\ errOut' = mapErr(e)
    /\ UNCHANGED <<mgrVars, listVars, storeVars, optVars, mwVars>>

InitErr == errIn = NilErr /\ errOut = PendingErr

InitStoreAt(v) ==
    /\ store = [o \in Objects |-> EmptyObject]
    /\ nextGen = GenStart
    /\ versioned = v
    /\ uploads = [u \in UploadIds |-> FreeUpload]
    /\ last = NoCall

\* Download / Remove / Attrs of the live version
LiveData == [Object : Objects, Version : {<<>>}]

\* uploads and the calls on the live version
NextUpload ==
    \/ \E u \in UploadIds, data \in UploadData : Upload(u, data)
    \/ \E u \in UploadIds, p \in Payloads : Write(u, p)
    \/ \E u \in UploadIds : Complete(u)
    \/ \E u \in UploadIds, reason \in Reasons : Abort(u, reason)
    \/ \E data \in LiveData : Download(data)
    \/ \E data \in LiveData : Remove(data)
    \/ \E data \in LiveData : Attrs(data)

\* the errors Abort is called with
AbortReasons == {"aborted by caller", "too large"}

\* uploads, aborted by the uploader's Abort or cancelled by the caller's context
NextCancel ==
    \/ \E u \in UploadIds, data \in UploadData : Upload(u, data)
    \/ \E u \in UploadIds, p \in Payloads : Write(u, p)
    \/ \E u \in UploadIds : Complete(u)
    \/ \E u \in UploadIds, reason \in AbortReasons : Abort(u, reason)
    \/ \E u \in UploadIds : CancelCaller(u)

\* uploads without options
PlainUpload ==
    [Object : Objects, Pre : [NotExists : {FALSE}], Attrs : [ContentType : ContentTypes]]

\* unconditioned uploads and the calls with any version string
NextVersion ==
    \/ \E u \in UploadIds, data \in PlainUpload : Upload(u, data)
    \/ \E u \in UploadIds, p \in Payloads : Write(u, p)
    \/ \E u \in UploadIds : Complete(u)
    \/ \E data \in VersionData : Download(data)
    \/ \E data \in VersionData : Remove(data)
    \/ \E data \in VersionData : Attrs(data)

NextErr == \E e \in NativeErrs \cup {NilErr} : MapErrCall(e)

(***************************************************************************)
(* Package objects: options.  An operation folds the options it was given  *)
(* into a fresh options struct, one apply call per option in list order.   *)
(* optRun holds the operation kind, its struct (opts) and, as history, the *)
(* options applied so far.  Which options an operation accepts is decided  *)
(* by the option interfaces: withVersionOption implements DownloadOption,  *)
(* RemoveOption, AttrsOption and ExistsOption; withPreconditionsOption and *)
(* withUploadAttrsOption implement UploadOption.                           *)
(***************************************************************************)
\* options one operation is given
MaxOptions == 3

VersionStrings == {"", "v1", "v2"}

OptContentTypes == {"", "text/plain", "image/png"}

\* WithVersion(version)
WithVersion(version) == [type |-> "withVersionOption", version |-> version]

\* WithPreconditions(pre)
WithPreconditions(pre) == [type |-> "withPreconditionsOption", pre |-> pre]

\* WithUploadAttrs(attrs)
WithUploadAttrs(attrs) == [type |-> "withUploadAttrsOption", attrs |-> attrs]

VersionOptions == {WithVersion(v) : v \in VersionStrings}

UploadOptions ==
    {WithPreconditions([NotExists |-> b]) : b \in BOOLEAN}
        \cup {WithUploadAttrs([ContentType |-> t]) : t \in OptContentTypes}

\* the zero value of downloadOptions, removeOptions, attrsOptions, existsOptions
versionOptionsZero == [version |-> ""]

\* the zero value of uploadOptions
uploadOptionsZero == [attrs |-> [ContentType |-> ""], pre |-> [NotExists |-> FALSE]]

OptKinds == {"Download", "Remove", "Attrs", "Exists", "Upload"}

\* the options an operation kind accepts
OptionsOf(kind) == IF kind = "Upload" THEN UploadOptions ELSE VersionOptions

\* lines 36-39: applyDownload, applyRemove, applyAttrs, applyExists
withVersionOption_apply(o, opts) == [opts EXCEPT !.version = o.version]

\* lines 73-75
withPreconditionsOption_applyUpload(o, opts) == [opts EXCEPT !.pre = o.pre]

\* applyUpload that builds the whole struct anew
withUploadAttrsOption_applyFresh(o, opts) ==
    [uploadOptionsZero EXCEPT !.attrs = [ContentType |-> o.attrs.ContentType]]

\* lines 97-101
withUploadAttrsOption_applyUpload(o, opts) ==
    [opts EXCEPT !.attrs = [ContentType |-> o.attrs.ContentType]]

\* o.applyX(&opts), dispatched on the option's type
apply(o, opts) ==
    CASE o.type = "withVersionOption" -> withVersionOption_apply(o, opts)
      [] o.type = "withPreconditionsOption" -> withPreconditionsOption_applyUpload(o, opts)
      [] o.type = "withUploadAttrsOption" -> withUploadAttrsOption_applyUpload(o, opts)

FreshRun(kind) ==
    [kind |-> kind, applied |-> <<>>,
     opts |-> IF kind = "Upload" THEN uploadOptionsZero ELSE versionOptionsZero]

\* an operation is called: var opts xOptions
NewOptions(kind) ==
    /\ optRun' = FreshRun(kind)
    /\ OptOnly

\* the fold takes the next option of the list: o.applyX(&opts)
ApplyOption(o) ==
    /\ Len(optRun.applied) < MaxOptions
    /\ o \in OptionsOf(optRun.kind)
    /\ optRun' = [optRun EXCEPT !.applied = Append(@, o), !.opts = apply(o, @)]
    /\ OptOnly

InitOpt == optRun = FreshRun("Download")

NextOpt ==
    \/ \E kind \in OptKinds : NewOptions(kind)
    \/ \E o \in VersionOptions \cup UploadOptions : ApplyOption(o)

(***************************************************************************)
(* calculateMiddlewareChain.  A middleware is a record of its identity and *)
(* its options.  JavaScript values are strings here ("true", "false",      *)
(* "undefined"); options and target are records that say whether they are  *)
(* undefined.  mwCalc holds the call's arguments (ms as far as   *)
(* the loop has read it), the array it builds and whether it has returned. *)
(***************************************************************************)
\* middlewares a handler is registered with
MaxMiddlewares == 2

undefined == "undefined"

Booleans == {"true", "false"}

TargetFields == {"auth", "expose", "isRaw", "isStream"}

\* interface EndpointOptions
EndpointOptions == [TargetFields -> Booleans]

\* the targets a middleware may declare: each field true, false or not set
Targets == [TargetFields -> Booleans \cup {undefined}]

\* the targets used: no field set, one field set, or all four
SomeTargets ==
    {t \in Targets : Cardinality({f \in TargetFields : t[f] # undefined}) \in {0, 1, 4}}

\* m.options.target === undefined
NoTarget == [isUndefined |-> TRUE, field |-> [f \in TargetFields |-> undefined]]

\* m.options === undefined
NoOptions == [isUndefined |-> TRUE, target |-> NoTarget]

\* m.options
MiddlewareOptions ==
    {NoOptions, [isUndefined |-> FALSE, target |-> NoTarget]}
        \cup {[isUndefined |-> FALSE, target |-> [isUndefined |-> FALSE, field |-> t]] :
                t \in SomeTargets}

\* the loop body without its last test
KeepsNoStream(endpointOptions, m) ==
    IF m.options.isUndefined \/ m.options.target.isUndefined
    THEN TRUE
    ELSE LET target == m.options.target.field
         IN  IF target["auth"] # undefined /\ target["auth"] # endpointOptions["auth"]
             THEN FALSE
             ELSE IF target["expose"] # undefined /\ target["expose"] # endpointOptions["expose"]
             THEN FALSE
             ELSE IF target["isRaw"] # undefined /\ target["isRaw"] # endpointOptions["isRaw"]
             THEN FALSE
             ELSE TRUE

\* lines 132-163: whether the loop body pushes m
Keeps(endpointOptions, m) ==
    IF m.options.isUndefined \/ m.options.target.isUndefined
    THEN TRUE
    ELSE LET target == m.options.target.field
         IN  IF target["auth"] # undefined /\ target["auth"] # endpointOptions["auth"]
             THEN FALSE
             ELSE IF target["expose"] # undefined /\ target["expose"] # endpointOptions["expose"]
             THEN FALSE
             ELSE IF target["isRaw"] # undefined /\ target["isRaw"] # endpointOptions["isRaw"]
             THEN FALSE
             ELSE IF target["isStream"] # undefined
                        /\ target["isStream"] # endpointOptions["isStream"]
             THEN FALSE
             ELSE TRUE

NoCalc ==
    [st |-> "idle", endpointOptions |-> [f \in TargetFields |-> "false"], ms |-> <<>>,
     middlewares |-> <<>>]

\* calculateMiddlewareChain is called: line 129
calculateMiddlewareChain(endpointOptions) ==
    /\ mwCalc.st \in {"idle", "returned"}
    /\ mwCalc' = [NoCalc EXCEPT !.st = "loop", !.endpointOptions = endpointOptions]
    /\ CalcOnly

\* one turn of the loop of lines 131-164, on the next middleware of ms, whose
\* options are opts
CalcStep(opts) ==
    /\ mwCalc.st = "loop"
    /\ Len(mwCalc.ms) < MaxMiddlewares
    /\ LET m == [id |-> Len(mwCalc.ms) + 1, options |-> opts]
       IN  mwCalc' = [mwCalc EXCEPT
                !.ms = Append(@, m),
                !.middlewares = IF Keeps(mwCalc.endpointOptions, m) THEN Append(@, m) ELSE @]
    /\ CalcOnly

\* ms is read to its end: line 166
CalcReturn ==
    /\ mwCalc.st = "loop"
    /\ mwCalc' = [mwCalc EXCEPT !.st = "returned"]
    /\ CalcOnly

NextCalc ==
    \/ \E eo \in EndpointOptions : calculateMiddlewareChain(eo)
    \/ \E opts \in MiddlewareOptions : CalcStep(opts)
    \/ CalcReturn

(***************************************************************************)
(* invokeMiddlewareChain, as the handler transformHandler registers for an *)
(* API route calls it.  What a middleware does is up to it: it may call    *)
(* next (with a request of its choice) several times or never, await it or *)
(* not, and return.  mwRun holds the chain (its length), the request's     *)
(* middleware data (curReq) and the activations: one per call of execute,  *)
(* with its index, the activation whose next call made it (parent, 0 for   *)
(* the first), the middlewareMeta of the request it was given, the number  *)
(* of next calls it has made and whether it has returned; the activation   *)
(* of an index past the chain is a run of the endpoint handler, and keeps  *)
(* the middleware data the request had when the handler was called.        *)
(***************************************************************************)
\* middlewares in a chain
MaxChain == 2

\* times one middleware calls next
MaxNext == 2

\* calls of execute for one request
MaxActs == 4

\* req.middlewareMeta
Metas == {undefined, "meta1"}

NoRun == [st |-> "idle", chain |-> 0, data |-> undefined, acts |-> <<>>]

Activation(kind, index, parent, req, data) ==
    [kind |-> kind, index |-> index, parent |-> parent, req |-> req, nexts |-> 0,
     returned |-> FALSE, dataAtRun |-> data]

\* next that skips a middleware
NextIndexSkip(index) == index + 2

\* line 117: the index next passes to execute
NextIndex(index) == index + 1

\* lines 104-118, execute(index, req), called by the activation `parent`: past
\* the chain the middleware data is set (if the request has any) and the
\* handler is called; otherwise the middleware at index is called
execute(run, index, req, parent) ==
    IF index >= run.chain
    THEN LET data == IF req # undefined THEN req ELSE run.data
         IN  [run EXCEPT !.data = data,
                         !.acts = Append(@, Activation("handler", index, parent, req, data))]
    ELSE [run EXCEPT !.acts = Append(@, Activation("middleware", index, parent, req, run.data))]

\* lines 246-265: the route's handler is called with a request, for a chain
\* of n middlewares; without middlewares the endpoint handler is called
\* directly, otherwise through invokeMiddlewareChain (line 121: execute(0, req))
\* with a new MiddlewareRequest
Handle(n) ==
    /\ mwRun.st = "idle"
    /\ LET run == [NoRun EXCEPT !.st = "active", !.chain = n]
       IN  mwRun' = IF n = 0
                    THEN [run EXCEPT !.acts = <<Activation("handler", 0, 0, undefined, run.data)>>]
                    ELSE execute(run, 0, undefined, 0)
    /\ RunOnly

\* the middleware of activation a calls next(req)
CallNext(a, req) ==
    /\ mwRun.st = "active"
    /\ a \in 1..Len(mwRun.acts)
    /\ mwRun.acts[a].kind = "middleware"
    /\ ~mwRun.acts[a].returned
    /\ mwRun.acts[a].nexts < MaxNext
    /\ Len(mwRun.acts) < MaxActs
    /\ mwRun' = execute([mwRun EXCEPT !.acts[a].nexts = @ + 1],
                        NextIndex(mwRun.acts[a].index), req, a)
    /\ RunOnly

\* the middleware, or the endpoint handler, of activation a returns
Return(a) ==
    /\ mwRun.st = "active"
    /\ a \in 1..Len(mwRun.acts)
    /\ ~mwRun.acts[a].returned
    /\ mwRun' = [mwRun EXCEPT !.acts[a].returned = TRUE]
    /\ RunOnly

NextRun ==
    \/ \E n \in 0..MaxChain : Handle(n)
    \/ \E a \in 1..MaxActs, req \in Metas : CallNext(a, req)
    \/ \E a \in 1..MaxActs : Return(a)

InitMw == mwCalc = NoCalc /\ mwRun = NoRun

(***************************************************************************)
(* Specifications: one per component; the variables of the other           *)
(* components stay as constructed.                                         *)
(***************************************************************************)
Init == InitErr /\ InitMgr /\ NoList /\ InitStoreAt(TRUE) /\ InitOpt /\ InitMw

InitListing == InitErr /\ InitMgr /\ InitList /\ InitStoreAt(TRUE) /\ InitOpt /\ InitMw

InitFullList == InitErr /\ InitMgr /\ FullList /\ InitStoreAt(TRUE) /\ InitOpt /\ InitMw

InitBucket ==
    InitErr /\ InitMgr /\ NoList /\ InitOpt /\ InitMw /\ \E v \in BOOLEAN : InitStoreAt(v)

\* mapErr applied to every error shape
SpecErr == Init /\ [][NextErr]_vars

\* concurrent NewBucket calls on one Manager
SpecMgr == Init /\ [][NextMgr]_vars

\* NewBucket calls on one Manager, one after another
SpecMgrSeq == Init /\ [][NextMgrSeq]_vars

\* options folded into an operation's options struct
SpecOpt == Init /\ [][NextOpt]_vars

\* calculateMiddlewareChain on every endpoint and list of middlewares
SpecCalc == Init /\ [][NextCalc]_vars

\* one request through a chain of middlewares
SpecRun == Init /\ [][NextRun]_vars

\* List calls and their consumers
SpecList == InitListing /\ [][NextList]_vars

\* two List calls on a full bucket and their consumers
SpecListPair == InitFullList /\ [][NextListPair]_vars

\* uploads in a bucket with or without object versioning
SpecUpload == InitBucket /\ [][NextUpload]_vars

\* uploads and the cancellation of their contexts
SpecCancel == InitBucket /\ [][NextCancel]_vars

\* versioned calls in a bucket with or without object versioning
SpecVersion == InitBucket /\ [][NextVersion]_vars

(***************************************************************************)
(* Properties.                                                             *)
(***************************************************************************)

\* C1: concurrent NewBucket calls for one provider configuration construct
\* exactly one client: no provider identity ever has a second client built.
C1_OneClientPerProvider == \A p \in Providers : built[p] <= 1

\* the objects of the listed bucket whose name has prefix P
Matching(P) == SelectSeq(listing, LAMBDA a : HasPrefix(a.Name, P))

\* the entries among the elements a sequence yielded
NumEntries(c) ==
    Cardinality({i \in 1..Len(cursors[c].yielded) : cursors[c].yielded[i].err = NilErr})

\* C2: a List(prefix P, limit N) whose consumer pulled to the end, against a
\* backend that served every page, yielded exactly min(M, N) elements (M when
\* there is no limit), M being the number of objects matching P; each is an
\* entry, not an error, of an object whose name has prefix P: the first ones
\* matching P, in order.
C2_ListCount ==
    \A c \in ListCalls :
        LET cur == cursors[c]
            all == Matching(cur.Prefix)
            M   == Len(all)
            k   == IF cur.Limit.isNil \/ M < cur.Limit.val THEN M ELSE cur.Limit.val
        IN  cur.st = "returned" /\ ~cur.stopped /\ cur.iter.err = NilErr =>
                /\ Len(cur.yielded) = k
                /\ \A i \in 1..Len(cur.yielded) :
                        /\ cur.yielded[i].err = NilErr
                        /\ ~cur.yielded[i].entry.isNil
                        /\ HasPrefix(cur.yielded[i].entry.Object, cur.Prefix)
                        /\ cur.yielded[i].entry = mapListEntry(all[i])

\* a List with limit 2 under prefix "a" ended after two of the three matching
\* objects, in a bucket that also holds an object outside the prefix
C2_Witness ==
    \E c \in ListCalls :
        /\ cursors[c].st = "returned" /\ ~cursors[c].stopped
        /\ cursors[c].iter.err = NilErr
        /\ cursors[c].Prefix = <<"a">>
        /\ cursors[c].Limit = [isNil |-> FALSE, val |-> 2]
        /\ Len(Matching(<<"a">>)) = 3
        /\ Len(listing) = 4
        /\ Len(cursors[c].yielded) = 2

\* C3: an element carrying an error is the last element of the sequence, and
\* the backend iterator is not advanced after it was yielded.
C3_ErrorEndsSequence ==
    \A c \in ListCalls :
        LET ys == cursors[c].yielded
        IN  /\ \A i \in 1..(Len(ys) - 1) : ys[i].err = NilErr
            /\ (Len(ys) > 0 /\ ys[Len(ys)].err # NilErr)
                    => cursors[c].iter.nextCalls = Len(ys)

\* C4: with a limit, no more than `limit` entries are yielded, and once the
\* limit-th entry was yielded the backend iterator is not called again.
C4_StopsAtLimit ==
    \A c \in ListCalls :
        LET cur == cursors[c]
        IN  ~cur.Limit.isNil =>
                /\ NumEntries(c) <= cur.Limit.val
                /\ (cur.Limit.val >= 1 /\ NumEntries(c) = cur.Limit.val)
                        => cur.iter.nextCalls = Len(cur.yielded)

\* C5: when Complete is called on an upload started with NotExists, whose
\* context is live, while the object has a live generation, it returns
\* ErrPreconditionFailed and no attributes, and the bucket is as it was,
\* whatever was written to the upload.
C5_NotExistsConflict ==
    [][\A u \in UploadIds :
            (/\ uploads[u].st = "open" /\ uploads'[u].st = "closed"
             /\ uploads[u].pre /\ ~uploads[u].cancelled
             /\ store[uploads[u].obj.object].live # NoGen)
            => /\ uploads'[u].err = ErrPreconditionFailed
               /\ uploads'[u].attrs.isNil
               /\ store' = store]_vars

\* a NotExists upload with bytes written failed on an object that exists
C5_Witness ==
    \E u \in UploadIds :
        /\ uploads[u].st = "closed" /\ uploads[u].pre /\ ~uploads[u].cancelled
        /\ uploads[u].buf # <<>>
        /\ uploads[u].err = ErrPreconditionFailed
        /\ store[uploads[u].obj.object].live # NoGen
        /\ \A g \in store[uploads[u].obj.object].gens : g.from # u

\* two uploads ran concurrently: one was open when the other started
Concurrent(u, v) == u \in uploads[v].peers \/ v \in uploads[u].peers

\* Complete was called on u, its context live, and no Remove of the object
\* succeeded while it was open
Settled(u) ==
    uploads[u].st = "closed" /\ ~uploads[u].cancelled /\ ~uploads[u].disturbed

\* C6: of two concurrent NotExists uploads of one object, at most one Complete
\* succeeds, and a Complete that does not succeed fails with
\* ErrPreconditionFailed.
C6_AtMostOneCreator ==
    \A u, v \in UploadIds :
        (/\ u # v /\ Concurrent(u, v)
         /\ uploads[u].pre /\ uploads[v].pre
         /\ uploads[u].obj.object = uploads[v].obj.object
         /\ Settled(u) /\ Settled(v))
        => /\ ~(uploads[u].err = NilErr /\ uploads[v].err = NilErr)
           /\ uploads[u].err \in {NilErr, ErrPreconditionFailed}
           /\ uploads[v].err \in {NilErr, ErrPreconditionFailed}

\* two concurrent NotExists uploads of an object that did not exist: one
\* created it, the other failed with ErrPreconditionFailed
C6_Witness ==
    \E u, v \in UploadIds :
        /\ u # v /\ Concurrent(u, v)
        /\ uploads[u].pre /\ uploads[v].pre
        /\ uploads[u].obj.object = uploads[v].obj.object
        /\ Settled(u) /\ Settled(v)
        /\ uploads[u].err = NilErr
        /\ uploads[v].err = ErrPreconditionFailed
        /\ store[uploads[u].obj.object].live = uploads[u].gen
        /\ \A g \in store[uploads[u].obj.object].gens : g.from = u

\* C7: an upload aborted before Complete never becomes a generation of the
\* object, also when Complete is called on it afterwards (it fails); Attrs and
\* Download of the object see what the bucket held without it:
\* ErrObjectNotExist when there is no live generation, and otherwise the live
\* generation, which no aborted upload wrote.
C7_AbortedNeverCommitted ==
    /\ \A u \in UploadIds :
            uploads[u].aborted =>
                /\ \A o \in Objects : \A g \in store[o].gens : g.from # u
                /\ uploads[u].gen = NoGen
                /\ uploads[u].st = "closed" =>
                        uploads[u].err # NilErr /\ uploads[u].attrs.isNil
    /\ last.op \in {"Attrs", "Download"} /\ last.Version = <<>> =>
            IF store[last.Object].live = NoGen
            THEN last.err = ErrObjectNotExist
            ELSE /\ last.err = NilErr
                 /\ \E g \in store[last.Object].gens :
                        /\ g.Generation = store[last.Object].live
                        /\ ~uploads[g.from].aborted
                        /\ last.op = "Download" => last.data = g.data
                        /\ last.op = "Attrs" => last.attrs = mapAttrs(ObjectAttrsOf(g))

\* an upload with bytes written was aborted, Complete was called on it, and a
\* later Attrs of the object, which never existed, failed with ErrObjectNotExist
C7_Witness ==
    \E u \in UploadIds :
        /\ uploads[u].aborted /\ uploads[u].st = "closed"
        /\ uploads[u].buf # <<>>
        /\ store[uploads[u].obj.object] = EmptyObject
        /\ last.op = "Attrs" /\ last.Object = uploads[u].obj.object
        /\ last.err = ErrObjectNotExist

\* the generation upload u created is still in the bucket
Stored(u) ==
    \E g \in store[uploads[u].obj.object].gens : g.Generation = uploads[u].gen

\* C8: the version the driver returned for a completed upload parses back to
\* the generation that upload created; a Download with that version is pinned
\* to that generation and, while the bucket holds it, returns the bytes of
\* that upload, also when a newer generation is live.
C8_VersionRoundTrip ==
    \A u \in UploadIds :
        uploads[u].st = "closed" /\ uploads[u].err = NilErr =>
            /\ ParseInt(uploads[u].attrs.Version, 10) = [err |-> "nil", val |-> uploads[u].gen]
            /\ (/\ last.op = "Download"
                /\ last.Object = uploads[u].attrs.Object
                /\ last.Version = uploads[u].attrs.Version)
               => /\ last.gen = uploads[u].gen
                  /\ Stored(u) => last.err = NilErr /\ last.data = uploads[u].buf
                  /\ last.err = NilErr => last.target = uploads[u].gen
            /\ (last.op = "Attrs" /\ last.err = NilErr /\ last.target = uploads[u].gen)
               => last.attrs.Version = uploads[u].attrs.Version

\* after a second upload made a newer generation live, a Download with the
\* first upload's version returned the first upload's bytes
C8_Witness ==
    \E u, v \in UploadIds :
        /\ uploads[u].st = "closed" /\ uploads[u].err = NilErr
        /\ uploads[v].st = "closed" /\ uploads[v].err = NilErr
        /\ uploads[u].obj.object = uploads[v].obj.object
        /\ uploads[u].gen < uploads[v].gen
        /\ store[uploads[u].obj.object].live = uploads[v].gen
        /\ uploads[u].buf # uploads[v].buf /\ uploads[u].buf # <<>>
        /\ last.op = "Download" /\ last.Version = uploads[u].attrs.Version
        /\ last.err = NilErr /\ last.data = uploads[u].buf

\* C9: a Download, Remove or Attrs whose version is empty or does not parse
\* acts on the live generation and fails only if there is none; one whose
\* version parses as a generation number (not negative) is pinned to exactly
\* that generation: it acts on it, or fails with ErrObjectNotExist.
C9_VersionFallback ==
    last.op \in {"Download", "Remove", "Attrs"} =>
        LET p == ParseInt(last.Version, 10)
        IN  /\ (last.Version = <<>> \/ p.err # "nil") =>
                    /\ last.gen = NoGen
                    /\ last.target = last.liveAt
                    /\ last.err = IF last.liveAt = NoGen THEN ErrObjectNotExist ELSE NilErr
            /\ (last.Version # <<>> /\ p.err = "nil" /\ p.val >= 0) =>
                    /\ last.gen = p.val
                    /\ last.target \in {p.val, NoGen}
                    /\ last.err = IF last.target = NoGen THEN ErrObjectNotExist ELSE NilErr

\* a Download whose version is out of the int64 range returned the live bytes
C9_Witness ==
    /\ last.op = "Download" /\ last.Version = OutOfRange
    /\ last.err = NilErr /\ last.data # <<>>
    /\ last.target = store[last.Object].live

\* C10: mapErr returns nil exactly for nil, ErrObjectNotExist for the
\* backend's object-not-found error, ErrPreconditionFailed for an HTTP 412 or
\* a gRPC AlreadyExists / FailedPrecondition status, and every other error
\* itself.
C10_ErrorNormalization ==
    errOut # PendingErr =>
        LET notFound == errIn # NilErr /\ errIn.notExist
            precond  == /\ errIn # NilErr /\ ~errIn.notExist
                        /\ \/ errIn.http = "412"
                           \/ errIn.grpc \in {"AlreadyExists", "FailedPrecondition"}
        IN  /\ (errOut = NilErr) <=> (errIn = NilErr)
            /\ notFound => errOut = ErrObjectNotExist
            /\ precond => errOut = ErrPreconditionFailed
            /\ (~notFound /\ ~precond) => errOut = errIn

\* a gRPC FailedPrecondition became ErrPreconditionFailed
C10_Witness ==
    /\ errIn.tag = "native" /\ ~errIn.notExist
    /\ errIn.http = NoCode /\ errIn.grpc = "FailedPrecondition"
    /\ errOut = ErrPreconditionFailed

\* every bucket NewBucket has returned, as provider identity and client
Buckets == UNION {callers[c].made : c \in Callers}

\* C11: after any sequence of NewBucket calls the buckets of one provider
\* identity share one client, the buckets of two provider identities have
\* different clients also when the two configurations hold the same values,
\* and once the calls have returned the number of clients constructed is the
\* number of provider identities used.
C11_CacheKeyedByIdentity ==
    /\ \A a, b \in Buckets : (a.prov = b.prov) <=> (a.id = b.id)
    /\ \A b \in Buckets : clients[b.prov].id = b.id
    /\ Quiescent => ClientsBuilt = Cardinality({b.prov : b \in Buckets})

\* buckets were made twice for p1 and once for p2, whose configuration holds
\* the same values as p1's: two clients were constructed
C11_Witness ==
    /\ Quiescent
    /\ \E c \in Callers : callers[c].calls = 2 /\ callers[c].prov = "p1" /\ built["p1"] = 1
    /\ {b.prov : b \in Buckets} = {"p1", "p2"}
    /\ ProviderCfg["p1"] = ProviderCfg["p2"]
    /\ ClientsBuilt = 2

\* a client storage.NewClient returned without an error
Usable(client) == client.id \in 1..ClientsBuilt

\* C16: when storage.NewClient fails for a provider configuration, NewBucket
\* returns no bucket: the goroutine panics, nothing runs after the panic, and
\* the failing call adds no entry to the client cache.  Every cached client and
\* the client of every bucket returned is one that was constructed.
C16_FailedConstructionIsFatal ==
    /\ [](\A c \in Callers :
            callers[c].pc = "panicked" =>
                callers[c].bucket = NoBucket /\ callers[c].client = NoClient)
    /\ [](\A p \in Providers : clients[p] # NoClient => Usable(clients[p]))
    /\ [](\A c \in Callers :
            callers[c].bucket # NoBucket => Usable(callers[c].bucket.client))
    /\ [][/\ Running
          /\ \A c \in Callers :
                (callers[c].pc = "create" /\ callers'[c].pc \notin {"create", "store"}) =>
                    /\ callers'[c].pc = "panicked"
                    /\ clients' = clients /\ built' = built
                    /\ callers'[c].made = callers[c].made
                    /\ callers'[c].calls = callers[c].calls]_vars

\* after a client was cached for p3, the construction for p1 failed: the
\* goroutine panicked without a bucket and the cache has no entry for p1
C16_Witness ==
    \E c \in Callers :
        /\ callers[c].pc = "panicked" /\ callers[c].prov = "p1"
        /\ callers[c].bucket = NoBucket
        /\ clients["p1"] = NoClient /\ built["p1"] = 0
        /\ clients["p3"] # NoClient

\* the options of a list that set a field: those of the type that sets it
Setters(applied, type) == SelectSeq(applied, LAMBDA o : o.type = type)

\* the value a field has after the list: that of the last option setting it,
\* or the default
LastSet(applied, type, value(_), default) ==
    LET ss == Setters(applied, type)
    IN  IF ss = <<>> THEN default ELSE value(ss[Len(ss)])

\* C12: after a list of options was applied to a fresh options struct, each
\* field (version, preconditions, upload attributes) holds the value of the
\* last option of the list that sets it, or its default if none does; and
\* applying one option changes no field but the one that option sets.
C12_OptionsLeftFold ==
    /\ [](IF optRun.kind = "Upload"
          THEN /\ optRun.opts.pre =
                    LastSet(optRun.applied, "withPreconditionsOption",
                            LAMBDA o : o.pre, [NotExists |-> FALSE])
               /\ optRun.opts.attrs =
                    LastSet(optRun.applied, "withUploadAttrsOption",
                            LAMBDA o : [ContentType |-> o.attrs.ContentType],
                            [ContentType |-> ""])
          ELSE optRun.opts.version =
                    LastSet(optRun.applied, "withVersionOption", LAMBDA o : o.version, ""))
    /\ [][Len(optRun'.applied) = Len(optRun.applied) + 1 =>
            LET o == optRun'.applied[Len(optRun'.applied)]
            IN  /\ o.type = "withPreconditionsOption" => optRun'.opts.attrs = optRun.opts.attrs
                /\ o.type = "withUploadAttrsOption" => optRun'.opts.pre = optRun.opts.pre]_vars

\* an Upload was given preconditions, then attributes, then other attributes:
\* the struct holds the preconditions and the attributes given last
C12_Witness ==
    /\ optRun.kind = "Upload"
    /\ optRun.applied = << WithPreconditions([NotExists |-> TRUE]),
                           WithUploadAttrs([ContentType |-> "text/plain"]),
                           WithUploadAttrs([ContentType |-> "image/png"]) >>
    /\ optRun.opts = [attrs |-> [ContentType |-> "image/png"], pre |-> [NotExists |-> TRUE]]

\* C13: List requests nothing from the backend before the consumer pulls;
\* the backend iterator is advanced only while the consumer waits for an
\* element, one Next call per pull, each delivering an element or ending the
\* sequence; after yield returned false the closure has returned and the
\* iterator stays as it is.
C13_NoRequestWithoutPull ==
    /\ [](\A c \in ListCalls :
            /\ cursors[c].st \in {"free", "ready"} =>
                    cursors[c].iter.nextCalls = 0 /\ cursors[c].iter.fetches = 0
            /\ cursors[c].st = "running" <=> cursors[c].pulling
            /\ cursors[c].iter.fetches <= cursors[c].iter.nextCalls
            /\ cursors[c].iter.nextCalls <= Len(cursors[c].yielded) + cursors[c].ranges)
    /\ [][\A c \in ListCalls :
            (cursors[c].st # "free" /\ cursors'[c].iter # cursors[c].iter) =>
                /\ cursors[c].pulling
                /\ cursors'[c].iter.nextCalls = cursors[c].iter.nextCalls + 1
                /\ \/ Len(cursors'[c].yielded) = Len(cursors[c].yielded) + 1
                   \/ ~cursors'[c].pulling]_vars

\* the consumer stopped after the first of three matching objects: one Next
\* call and one page fetch were made, the second page was never asked for
C13_Witness ==
    \E c \in ListCalls :
        /\ cursors[c].st = "returned" /\ cursors[c].stopped /\ ~cursors[c].pulling
        /\ Len(cursors[c].yielded) = 1 /\ cursors[c].yielded[1].err = NilErr
        /\ cursors[c].Limit.isNil
        /\ Len(Matching(cursors[c].Prefix)) = 3
        /\ cursors[c].iter.nextCalls = 1 /\ cursors[c].iter.fetches = 1
        /\ cursors[c].iter.fetched = PageSize

\* the entries a sequence yielded, in order, without the error elements
Entries(c) == SelectSeq(cursors[c].yielded, LAMBDA y : y.err = NilErr)

\* C17: a sequence returned by List resumes where it stopped when it is
\* iterated again: over all its iterations the entries it yielded are the
\* first objects matching its own prefix, each once and in order, and no more
\* of them than its own limit; its counter counts its own yields only, and a
\* step of one List call's sequence leaves every other call's cursor as it is.
C17_IndependentCursors ==
    /\ [](\A c \in ListCalls :
            LET es  == Entries(c)
                all == Matching(cursors[c].Prefix)
            IN  /\ Len(es) <= Len(all)
                /\ \A i \in 1..Len(es) : es[i].entry = mapListEntry(all[i])
                /\ ~cursors[c].Limit.isNil => Len(es) <= cursors[c].Limit.val
                /\ cursors[c].n = Len(cursors[c].yielded))
    /\ [][\A c, d \in ListCalls :
            (c # d /\ cursors'[c] # cursors[c]) => cursors'[d] = cursors[d]]_vars

\* the first call's sequence (prefix "a", limit 2) was left after one entry
\* and iterated again: it yielded a/1 and then a/2, two entries in all; the
\* second call's sequence (no prefix, no limit) yielded all four objects
C17_Witness ==
    /\ cursors[1].Prefix = <<"a">> /\ cursors[1].Limit = [isNil |-> FALSE, val |-> 2]
    /\ cursors[1].ranges = 2 /\ cursors[1].stopped /\ cursors[1].st = "returned"
    /\ Len(cursors[1].yielded) = 2
    /\ cursors[1].yielded[1].entry.Object = <<"a", "1">>
    /\ cursors[1].yielded[2].entry.Object = <<"a", "2">>
    /\ cursors[2].Prefix = <<>> /\ cursors[2].Limit.isNil
    /\ cursors[2].st = "returned" /\ Len(Entries(2)) = 4 /\ Len(cursors[2].yielded) = 4

\* C14: Abort(reason) cancels the upload's own context, with that reason as
\* the cause unless the context was cancelled before, and leaves the context
\* the caller passed to Upload as it was; cancelling the caller's context
\* cancels the upload's context as well.  The upload's context is cancelled
\* in no other way.
C14_AbortDecoupled ==
    /\ [](\A u \in UploadIds :
            /\ uploads[u].ctxCancelled => uploads[u].cancelled
            /\ uploads[u].aborted => uploads[u].cancelled
            /\ uploads[u].cancelled => uploads[u].aborted \/ uploads[u].ctxCancelled
            /\ (uploads[u].aborted /\ ~uploads[u].ctxCancelled) =>
                    uploads[u].cause = uploads[u].abortedWith)
    /\ [][\A u \in UploadIds :
            (uploads'[u].aborted /\ ~uploads[u].aborted) =>
                /\ uploads'[u].ctxCancelled = uploads[u].ctxCancelled
                /\ uploads'[u].cancelled
                /\ ~uploads[u].cancelled => uploads'[u].cause = uploads'[u].abortedWith]_vars

\* one upload was aborted: its own context is cancelled with the reason and
\* its caller's context is live; the other upload's caller cancelled its
\* context: that upload's context is cancelled though Abort was never called
C14_Witness ==
    \E u, v \in UploadIds :
        /\ uploads[u].aborted /\ uploads[u].cancelled /\ ~uploads[u].ctxCancelled
        /\ uploads[u].cause = "too large"
        /\ ~uploads[v].aborted /\ uploads[v].ctxCancelled /\ uploads[v].cancelled
        /\ uploads[v].cause = Canceled
        /\ uploads[v].st = "closed" /\ uploads[v].err # NilErr

\* C15: a Remove of a target (the live version, or one generation) that a
\* Remove already deleted, with no upload of the object committed since,
\* fails with ErrObjectNotExist and changes nothing: two Removes of one target
\* never both succeed.  In a bucket without object versioning this holds of
\* any two Removes of the object.
C15_RemoveOnce ==
    [][(last'.op = "Remove" /\ store[last'.Object].removedAs # {}) =>
            LET was    == store[last'.Object].removedAs
                target == IF last'.gen >= 0 THEN last'.gen ELSE NoGen
            IN  (target \in was \/ ~versioned) =>
                    /\ last'.err = ErrObjectNotExist
                    /\ store' = store]_vars

\* in a bucket with object versioning, after the live version was removed, a
\* second Remove of the live version failed with ErrObjectNotExist, while the
\* removed generation is kept as a noncurrent one
C15_Witness ==
    /\ versioned
    /\ last.op = "Remove" /\ last.Version = <<>>
    /\ last.err = ErrObjectNotExist
    /\ NoGen \in store[last.Object].removedAs
    /\ store[last.Object].live = NoGen
    /\ store[last.Object].gens # {}

\* a middleware matches an endpoint: it has no target, or each field its
\* target sets equals the endpoint's option
Matches(endpointOptions, m) ==
    \/ m.options.isUndefined
    \/ m.options.target.isUndefined
    \/ \A f \in TargetFields :
            \/ m.options.target.field[f] = undefined
            \/ m.options.target.field[f] = endpointOptions[f]

\* C19: the array calculateMiddlewareChain returns holds a middleware of ms if
\* and only if it matches the endpoint; the kept middlewares are in the order
\* they have in ms, each once.
C19_ChainFilter ==
    mwCalc.st = "returned" =>
        LET out == mwCalc.middlewares
        IN  /\ \A i \in 1..Len(mwCalc.ms) :
                    Matches(mwCalc.endpointOptions, mwCalc.ms[i])
                        <=> \E j \in 1..Len(out) : out[j] = mwCalc.ms[i]
            /\ \A j \in 1..Len(out) : \E i \in 1..Len(mwCalc.ms) : out[j] = mwCalc.ms[i]
            /\ \A j, k \in 1..Len(out) : j < k => out[j].id < out[k].id

\* for an exposed stream endpoint with auth, of a middleware for endpoints
\* that are no streams and one for exposed, not raw stream endpoints with
\* auth, the second alone was kept
C19_Witness ==
    /\ mwCalc.st = "returned"
    /\ mwCalc.endpointOptions["auth"] = "true" /\ mwCalc.endpointOptions["isStream"] = "true"
    /\ Len(mwCalc.ms) = 2
    /\ ~mwCalc.ms[1].options.isUndefined /\ ~mwCalc.ms[1].options.target.isUndefined
    /\ mwCalc.ms[1].options.target.field["isStream"] = "false"
    /\ mwCalc.ms[1].options.target.field["auth"] = undefined
    /\ ~mwCalc.ms[2].options.isUndefined /\ ~mwCalc.ms[2].options.target.isUndefined
    /\ mwCalc.ms[2].options.target.field["isStream"] = "true"
    /\ mwCalc.ms[2].options.target.field["auth"] = "true"
    /\ mwCalc.middlewares = <<mwCalc.ms[2]>>

\* the activations a next call of activation k made
Children(k) == {j \in 1..Len(mwRun.acts) : mwRun.acts[j].parent = k}

\* the activations of one index of the chain
At(i) == {j \in 1..Len(mwRun.acts) : mwRun.acts[j].index = i}

\* the middlewares started so far called next at most once each
NextAtMostOnce ==
    \A k \in 1..Len(mwRun.acts) : mwRun.acts[k].nexts <= 1

\* every middleware of the chain ran and called next exactly once
NextExactlyOnce ==
    /\ \A k \in 1..Len(mwRun.acts) :
            mwRun.acts[k].kind = "middleware" => mwRun.acts[k].nexts = 1
    /\ \A i \in 0..(mwRun.chain - 1) : At(i) # {}

\* C18: the middlewares run in chain order: the first activation is that of
\* middleware 0, middleware i+1 is started only by a next call of middleware
\* i, and the endpoint handler only by a next call of the last middleware; a
\* middleware that has not called next has started nothing, so when one
\* returns without calling next, and none called next twice, no later
\* middleware and no handler runs; when every middleware called next exactly
\* once, the handler ran exactly once; and the handler is called with the
\* request's middleware data set to the middlewareMeta it was passed, when
\* that is defined.
C18_ChainOrder ==
    mwRun.st = "active" =>
        LET acts == mwRun.acts
            n    == mwRun.chain
        IN  /\ acts[1].index = 0 /\ acts[1].parent = 0
            /\ \A k \in 2..Len(acts) :
                    /\ acts[k].parent \in 1..(k - 1)
                    /\ acts[acts[k].parent].kind = "middleware"
                    /\ acts[acts[k].parent].index = acts[k].index - 1
            /\ \A k \in 1..Len(acts) :
                    /\ Cardinality(Children(k)) = acts[k].nexts
                    /\ acts[k].kind = "handler" <=> acts[k].index = n
                    /\ acts[k].index \in 0..n
                    /\ (acts[k].kind = "handler" /\ acts[k].req # undefined) =>
                            acts[k].dataAtRun = acts[k].req
                    /\ (acts[k].returned /\ acts[k].nexts = 0 /\ NextAtMostOnce) =>
                            \A i \in (acts[k].index + 1)..n : At(i) = {}
            /\ NextAtMostOnce => \A i \in 0..n : Cardinality(At(i)) <= 1
            /\ NextExactlyOnce => Cardinality(At(n)) = 1

\* in a chain of two middlewares each called next exactly once and returned,
\* the second passing a request with middleware metadata: the handler ran
\* once, after both, with the request's middleware data set to it
C18_Witness ==
    /\ mwRun.st = "active" /\ mwRun.chain = 2
    /\ NextExactlyOnce
    /\ Len(mwRun.acts) = 3
    /\ mwRun.acts[1].returned /\ mwRun.acts[2].returned /\ mwRun.acts[3].returned
    /\ mwRun.acts[3].kind = "handler" /\ mwRun.acts[3].parent = 2
    /\ mwRun.acts[3].req = "meta1" /\ mwRun.acts[3].dataAtRun = "meta1"

====
